---- MODULE Spec2Model ----
(***************************************************************************)
(* Model of two client-side components of diun:                            *)
(*   - the inventory client (image list / inspect / remove / prune), one   *)
(*     command run per behaviour, talking to the remote image service;     *)
(*   - the webhook notifier's Client.Send.                                 *)
(* Strings whose letter case matters (image names, header keys) are        *)
(* sequences of ASCII codes, so that upper-casing and header               *)
(* canonicalisation are computed and not assumed.                          *)
(***************************************************************************)
EXTENDS Integers, Sequences, FiniteSets, TLC

VARIABLES
    cmd,        \* the operation running: "none", "list", "inspect", "remove", "prune", "send"
    pc,         \* its position
    raw,        \* --raw flag of list / inspect
    force,      \* --force flag of prune
    conn,       \* the gRPC client connection: "none", "open", "closed"
    answer,     \* outcome of the confirmation prompt: "none", "yes", "no", "error"
    rpcCalls,   \* number of remote calls issued by the command
    reply,      \* the response of the remote service, as it was returned
    out,        \* what the command wrote to stdout
    ret,        \* the value Run / Send returned: "running", "nil" or an error
    cfg,        \* webhook configuration: [Headers, UserAgent]
    rendered,   \* outcome of msg.New and RenderJSON: "none", "ok", "newError", "renderError"
    pending,    \* keys of cfg.Headers the range loop has not visited yet
    reqHeader,  \* req.Header: canonical key -> sequence of values
    ctx,        \* the cancel/timeout context pair: [made, done, cause, timer]
    transport,  \* how the endpoint behaves: "respond", "fail", "hang"
    exchanges,  \* number of round trips the transport performed in this Send
    bodies,     \* response bodies: [opened, closed]
    resp        \* the response hc.Do handed back to Send, if any

vars == <<cmd, pc, raw, force, conn, answer, rpcCalls, reply, out, ret,
          cfg, rendered, pending, reqHeader, ctx, transport, exchanges, bodies, resp>>

clientVars == <<raw, force, conn, answer, rpcCalls, reply, out>>
sendVars == <<cfg, rendered, pending, reqHeader, ctx, transport, exchanges, bodies, resp>>

----------------------------------------------------------------------------
(* Bounds of the model *)

MaxImages == 3      \* longest ImageList response
MaxManifests == 3   \* longest manifest list of a response
MaxPruneImages == 2 \* longest ImagePrune response
MaxHeaders == 3     \* largest configured header map

----------------------------------------------------------------------------
(* Strings as sequences of ASCII codes *)

Str_alpine == <<97,108,112,105,110,101>>
Str_Alpine == <<65,108,112,105,110,101>>
Str_Zebra == <<90,101,98,114,97>>
Str_busybox == <<98,117,115,121,98,111,120>>

\* unicode.ToUpper on an ASCII code point
ToUpper(c) == IF c >= 97 /\ c <= 122 THEN c - 32 ELSE c

\* strings.Map(unicode.ToUpper, s)
MapToUpper(s) == [i \in 1..Len(s) |-> ToUpper(s[i])]

\* Go's < on strings: bytewise lexicographic
RECURSIVE StrLess(_, _)
StrLess(a, b) ==
    IF b = <<>> THEN FALSE
    ELSE IF a = <<>> THEN TRUE
    ELSE IF a[1] < b[1] THEN TRUE
    ELSE IF a[1] > b[1] THEN FALSE
    ELSE StrLess(Tail(a), Tail(b))

\* the less function ImageListCmd.Run hands to sort.Slice
ListLess(x, y) == StrLess(MapToUpper(x.Name), MapToUpper(y.Name))

InspectLessAscending(x, y) == x.Created < y.Created

\* the less function ImageInspectCmd.Run hands to sort.Slice: Created.After
InspectLess(x, y) == x.Created > y.Created

Less(kind, x, y) == IF kind = "list" THEN ListLess(x, y) ELSE InspectLess(x, y)

\* sort.Slice on a slice of at most 12 elements is an insertion sort (stable):
\*   for i := 1; i < n; i++ { for j := i; j > 0 && less(j, j-1); j-- { swap(j, j-1) } }
\* Insert is the inner loop: x moves left past every element it is less than.
RECURSIVE Insert(_, _, _)
Insert(sorted, x, kind) ==
    IF sorted = <<>> THEN <<x>>
    ELSE IF Less(kind, x, sorted[Len(sorted)])
         THEN Append(Insert(SubSeq(sorted, 1, Len(sorted) - 1), x, kind), sorted[Len(sorted)])
         ELSE Append(sorted, x)

RECURSIVE SortSlice(_, _)
SortSlice(s, kind) ==
    IF s = <<>> THEN <<>>
    ELSE Insert(SortSlice(SubSeq(s, 1, Len(s) - 1), kind), s[Len(s)], kind)

----------------------------------------------------------------------------
(* Responses of the remote image service *)

Range(s) == {s[i] : i \in 1..Len(s)}

\* sequences over S of length at most n
RECURSIVE SeqsUpTo(_, _)
SeqsUpTo(S, n) ==
    IF n = 0 THEN {<<>>}
    ELSE LET shorter == SeqsUpTo(S, n - 1)
         IN shorter \cup {Append(s, x) : s \in {t \in shorter : Len(t) = n - 1}, x \in S}

Injective(s) == \A i, j \in 1..Len(s) : i # j => s[i] # s[j]

\* pb.ImageListResponse_Image: the name is the record's key
ImagePool ==
    { [Name |-> Str_alpine, ManifestsCount |-> 1],
      [Name |-> Str_Alpine, ManifestsCount |-> 2],
      [Name |-> Str_Zebra, ManifestsCount |-> 3],
      [Name |-> Str_busybox, ManifestsCount |-> 1] }

ImageListReplies == {s \in SeqsUpTo(ImagePool, MaxImages) : Injective(s)}

\* pb.Manifest: (image, tag) is unique, creation times and digests may repeat
ManifestPool ==
    { [Tag |-> "latest", Created |-> 3, Digest |-> "sha256:a", Size |-> 5],
      [Tag |-> "v1", Created |-> 1, Digest |-> "sha256:b", Size |-> 7],
      [Tag |-> "v2", Created |-> 3, Digest |-> "sha256:a", Size |-> 0],
      [Tag |-> "v3", Created |-> 2, Digest |-> "sha256:c", Size |-> 11] }

ManifestReplies == {s \in SeqsUpTo(ManifestPool, MaxManifests) : Injective(s)}

\* pb.ImagePruneResponse: removed images, each with its removed manifests
PrunedImagePool ==
    { [Manifests |-> <<>>],
      [Manifests |-> << [Tag |-> "latest", Created |-> 3, Digest |-> "sha256:a", Size |-> 5] >>],
      [Manifests |-> << [Tag |-> "v1", Created |-> 1, Digest |-> "sha256:b", Size |-> 7],
                        [Tag |-> "v2", Created |-> 3, Digest |-> "sha256:a", Size |-> 0] >>] }

PruneReplies == SeqsUpTo(PrunedImagePool, MaxPruneImages)

----------------------------------------------------------------------------
(* Rendering *)

NoOutput == [kind |-> "none", text |-> "", rows |-> <<>>, footer |-> <<>>]

Message(text) == [kind |-> "message", text |-> text, rows |-> <<>>, footer |-> <<>>]

\* protojson.Marshal of the (sorted) response, pretty-printed
RawOutput(payload) == [kind |-> "raw", text |-> "", rows |-> payload, footer |-> <<>>]

\* units.HumanSize for sizes below 1000 bytes: the number followed by "B"
HumanSize(n) == <<n, "B">>

RECURSIVE SumSizes(_)
SumSizes(ms) == IF ms = <<>> THEN 0 ELSE ms[1].Size + SumSizes(Tail(ms))

\* the nested range loops of ImagePruneCmd.Run: every manifest of every image
RECURSIVE Flatten(_)
Flatten(images) == IF images = <<>> THEN <<>> ELSE images[1].Manifests \o Flatten(Tail(images))

\* table of ImageListCmd.Run, footer {"Total", len(il.Images)}
ListTable(images) ==
    [kind |-> "table", text |-> "", rows |-> images, footer |-> <<"Total", Len(images)>>]

\* table of ImageInspectCmd.Run, footer {"Total", len(ii.Image.Manifests)}
InspectTable(manifests) ==
    [kind |-> "table", text |-> "",
     rows |-> [i \in 1..Len(manifests) |->
                 [Tag |-> manifests[i].Tag, Created |-> manifests[i].Created,
                  Digest |-> manifests[i].Digest]],
     footer |-> <<"Total", Len(manifests)>>]

\* table of ImageRemoveCmd.Run and ImagePruneCmd.Run,
\* footer {"Total", Sprintf("%d (%s)", count, HumanSize(totalSize))}
RemovedTable(manifests) ==
    [kind |-> "table", text |-> "",
     rows |-> [i \in 1..Len(manifests) |->
                 [Tag |-> manifests[i].Tag, Created |-> manifests[i].Created,
                  Digest |-> manifests[i].Digest, Size |-> HumanSize(manifests[i].Size)]],
     footer |-> <<"Total", Len(manifests), HumanSize(SumSizes(manifests))>>]

\* the test ImagePruneCmd.Run makes before it builds a table
NothingRemoved(removed) == Len(removed) = 0

PruneOutput(removed) ==
    IF NothingRemoved(removed)
    THEN Message("Nothing to be removed from the database")
    ELSE RemovedTable(Flatten(removed))

----------------------------------------------------------------------------
(* The inventory client *)

DeferCloseLeak(c) == c

\* defer conn.Close(), run when Run returns
DeferClose(c) == IF c = "open" THEN "closed" ELSE c

PromptErrorSwallowed(e) == "nil"

\* what Run returns when survey.AskOne fails
PromptErrorResult(e) == e

ProceedAlways(f, confirmed) == TRUE

\* the confirmation gate of ImagePruneCmd.Run
Proceed(f, confirmed) == f \/ confirmed

\* grpc.NewClient at the start of every Run: a connection, or an error returned at once
Dial(c, ok) ==
    /\ cmd = "none"
    /\ cmd' = c
    /\ IF ok
       THEN /\ conn' = "open"
            /\ pc' = IF c = "prune" /\ ~Proceed(force', FALSE) THEN "prompt" ELSE "rpc"
            /\ ret' = "running"
       ELSE /\ conn' = "none"
            /\ pc' = "done"
            /\ ret' = "dialError"

\* Run returns err after a failed remote call
RpcFails(c) ==
    /\ cmd = c /\ pc = "rpc"
    /\ rpcCalls' = rpcCalls + 1
    /\ conn' = DeferClose(conn)
    /\ ret' = "rpcError"
    /\ pc' = "done"
    /\ UNCHANGED <<cmd, raw, force, answer, reply, out>>

ListStart ==
    \E r \in BOOLEAN, ok \in BOOLEAN :
        /\ Dial("list", ok)
        /\ raw' = r
        /\ UNCHANGED <<force, answer, rpcCalls, reply, out>>
        /\ UNCHANGED sendVars

ListRpc ==
    \/ RpcFails("list") /\ UNCHANGED sendVars
    \/ \E il \in ImageListReplies :
        LET sorted == SortSlice(il, "list") IN
        /\ cmd = "list" /\ pc = "rpc"
        /\ rpcCalls' = rpcCalls + 1
        /\ reply' = il
        /\ out' = IF raw THEN RawOutput(sorted)
                  ELSE IF Len(sorted) = 0 THEN Message("No image found in the database")
                  ELSE ListTable(sorted)
        /\ conn' = DeferClose(conn)
        /\ ret' = "nil"
        /\ pc' = "done"
        /\ UNCHANGED <<cmd, raw, force, answer>>
        /\ UNCHANGED sendVars

InspectStart ==
    \E r \in BOOLEAN, ok \in BOOLEAN :
        /\ Dial("inspect", ok)
        /\ raw' = r
        /\ UNCHANGED <<force, answer, rpcCalls, reply, out>>
        /\ UNCHANGED sendVars

InspectRpc ==
    \/ RpcFails("inspect") /\ UNCHANGED sendVars
    \/ \E ms \in ManifestReplies :
        LET sorted == SortSlice(ms, "inspect") IN
        /\ cmd = "inspect" /\ pc = "rpc"
        /\ rpcCalls' = rpcCalls + 1
        /\ reply' = ms
        /\ out' = IF raw THEN RawOutput(sorted) ELSE InspectTable(sorted)
        /\ conn' = DeferClose(conn)
        /\ ret' = "nil"
        /\ pc' = "done"
        /\ UNCHANGED <<cmd, raw, force, answer>>
        /\ UNCHANGED sendVars

RemoveStart ==
    \E ok \in BOOLEAN :
        /\ Dial("remove", ok)
        /\ UNCHANGED <<raw, force, answer, rpcCalls, reply, out>>
        /\ UNCHANGED sendVars

RemoveRpc ==
    \/ RpcFails("remove") /\ UNCHANGED sendVars
    \/ \E ms \in ManifestReplies :
        /\ cmd = "remove" /\ pc = "rpc"
        /\ rpcCalls' = rpcCalls + 1
        /\ reply' = ms
        /\ out' = RemovedTable(ms)
        /\ conn' = DeferClose(conn)
        /\ ret' = "nil"
        /\ pc' = "done"
        /\ UNCHANGED <<cmd, raw, force, answer>>
        /\ UNCHANGED sendVars

PruneStart ==
    \E f \in BOOLEAN, ok \in BOOLEAN :
        /\ force' = f
        /\ Dial("prune", ok)
        /\ UNCHANGED <<raw, answer, rpcCalls, reply, out>>
        /\ UNCHANGED sendVars

\* survey.AskOne(prompt, &confirmed): an error, or an answer
PrunePrompt ==
    /\ cmd = "prune" /\ pc = "prompt"
    /\ \/ /\ answer' = "error"
          /\ ret' = PromptErrorResult("promptError")
          /\ conn' = DeferClose(conn)
          /\ pc' = "done"
       \/ \E confirmed \in BOOLEAN :
            /\ answer' = IF confirmed THEN "yes" ELSE "no"
            /\ IF Proceed(force, confirmed)
               THEN /\ pc' = "rpc"
                    /\ UNCHANGED <<ret, conn>>
               ELSE /\ ret' = "nil"
                    /\ conn' = DeferClose(conn)
                    /\ pc' = "done"
    /\ UNCHANGED <<cmd, raw, force, rpcCalls, reply, out>>
    /\ UNCHANGED sendVars

PruneRpc ==
    \/ RpcFails("prune") /\ UNCHANGED sendVars
    \/ \E removed \in PruneReplies :
        /\ cmd = "prune" /\ pc = "rpc"
        /\ rpcCalls' = rpcCalls + 1
        /\ reply' = removed
        /\ out' = PruneOutput(removed)
        /\ conn' = DeferClose(conn)
        /\ ret' = "nil"
        /\ pc' = "done"
        /\ UNCHANGED <<cmd, raw, force, answer>>
        /\ UNCHANGED sendVars

----------------------------------------------------------------------------
(* The webhook notifier: header keys and values *)

Hdr_UserAgent == <<85,115,101,114,45,65,103,101,110,116>>   \* "User-Agent"
Hdr_useragent == <<117,115,101,114,45,97,103,101,110,116>>  \* "user-agent"
Hdr_XId == <<88,45,73,100>>                                  \* "X-Id"
Hdr_xid == <<120,45,105,100>>                                \* "x-id"

HeaderKeys == {Hdr_UserAgent, Hdr_useragent, Hdr_XId, Hdr_xid}
HeaderValues == {"v1", "v2"}
UserAgents == {"diun/4", "v1"}

\* c.cfg.Headers: a map with at most MaxHeaders keys
HeaderMaps ==
    UNION {[ks -> HeaderValues] : ks \in {k \in SUBSET HeaderKeys : Cardinality(k) <= MaxHeaders}}

IsLower(c) == c >= 97 /\ c <= 122
IsUpper(c) == c >= 65 /\ c <= 90
IsDigit(c) == c >= 48 /\ c <= 57

\* textproto's validHeaderFieldByte: the token characters of RFC 7230
IsTokenByte(c) ==
    IsLower(c) \/ IsUpper(c) \/ IsDigit(c)
        \/ c \in {33, 35, 36, 37, 38, 39, 42, 43, 45, 46, 94, 95, 96, 124, 126}

\* textproto.CanonicalMIMEHeaderKey, which Header.Add and Header.Set apply to the
\* key: the first letter and every letter after a hyphen upper case, the rest lower
\* case; a key holding a byte that is no token character is left as it is.
RECURSIVE Canon(_, _)
Canon(k, upper) ==
    IF k = <<>> THEN <<>>
    ELSE LET c == IF upper /\ IsLower(k[1]) THEN k[1] - 32
                  ELSE IF ~upper /\ IsUpper(k[1]) THEN k[1] + 32
                  ELSE k[1]
         IN <<c>> \o Canon(Tail(k), c = 45)

CanonicalKey(k) ==
    IF \A i \in 1..Len(k) : IsTokenByte(k[i]) THEN Canon(k, TRUE) ELSE k

\* req.Header.Add(key, value): append to the values of the canonical key
HeaderAdd(h, k, v) ==
    LET ck == CanonicalKey(k)
    IN [x \in DOMAIN h \cup {ck} |->
          IF x = ck THEN (IF ck \in DOMAIN h THEN Append(h[ck], v) ELSE <<v>>) ELSE h[x]]

HeaderSetAppends(h, k, v) == HeaderAdd(h, k, v)

\* req.Header.Set(key, value): replace the values of the canonical key
HeaderSet(h, k, v) ==
    LET ck == CanonicalKey(k)
    IN [x \in DOMAIN h \cup {ck} |-> IF x = ck THEN <<v>> ELSE h[x]]

EmptyHeader == [x \in {} |-> <<>>]

----------------------------------------------------------------------------
(* The webhook notifier: contexts *)

NoContext == [made |-> FALSE, done |-> FALSE, cause |-> "none", timer |-> "none"]

TimeoutCauseCanceled == "Canceled"

\* the cause given to context.WithTimeoutCause
TimeoutCause == "DeadlineExceeded"

\* context.WithCancelCause, then context.WithTimeoutCause on top of it: the timer is armed
NewContext == [made |-> TRUE, done |-> FALSE, cause |-> "none", timer |-> "armed"]

\* the timer of the timeout context goes off: the context is done, cause kept
Expire(c) == [c EXCEPT !.done = TRUE, !.cause = TimeoutCause, !.timer = "fired"]

\* the deferred cancel(errors.WithStack(context.Canceled)): it ends the parent context and
\* with it the timeout context, whose timer stops; a context already done keeps its cause
Cancel(c) ==
    IF ~c.made THEN c
    ELSE IF c.done THEN c
    ELSE [c EXCEPT !.done = TRUE, !.cause = "Canceled",
                   !.timer = IF c.timer = "armed" THEN "stopped" ELSE c.timer]

----------------------------------------------------------------------------
(* The webhook notifier: Client.Send *)

NoResponse == [Status |-> 0, Location |-> "none"]

\* responses of the endpoint: a status code, and the state of its Location header
ResponsePool ==
    {[Status |-> st, Location |-> "none"] : st \in {200, 302, 304, 404, 500}}
        \cup {[Status |-> st, Location |-> l] : st \in {302, 307}, l \in {"valid", "malformed"}}

\* net/http redirectBehavior for a POST whose body can be replayed (bytes.Buffer)
ShouldRedirect(status) == status \in {301, 302, 303, 307, 308}

\* the zero http.Client has no CheckRedirect: defaultCheckRedirect stops after 10 requests
StopRedirects(via) == via >= 10

RenderIgnoresError(m) == FALSE

\* msg.New or message.RenderJSON returned an error
RenderFailed(m) == m # "ok"

SendResultChecksStatus(r) ==
    IF r.Status >= 200 /\ r.Status < 300 THEN "nil" ELSE "statusError"

\* what Send returns once hc.Do has handed it a response
SendResult(r) == "nil"

\* New(config, meta), then Send up to the creation of the contexts (lines 38-53)
SendStart ==
    \E h \in HeaderMaps, u \in UserAgents, m \in {"ok", "newError", "renderError"} :
        /\ cmd = "none"
        /\ cmd' = "send"
        /\ cfg' = [Headers |-> h, UserAgent |-> u]
        /\ rendered' = m
        /\ IF RenderFailed(m)
           THEN /\ ret' = m
                /\ pc' = "done"
                /\ ctx' = ctx
           ELSE /\ ret' = "running"
                /\ pc' = "request"
                /\ ctx' = NewContext
        /\ UNCHANGED <<pending, reqHeader, transport, exchanges, bodies, resp>>
        /\ UNCHANGED clientVars

\* http.NewRequestWithContext: a request with an empty header, or an error
SendNewRequest ==
    /\ cmd = "send" /\ pc = "request"
    /\ \E ok \in BOOLEAN :
        IF ok
        THEN /\ reqHeader' = EmptyHeader
             /\ pending' = DOMAIN cfg.Headers
             /\ pc' = "headers"
             /\ UNCHANGED <<ret, ctx>>
        ELSE /\ ret' = "requestError"
             /\ ctx' = Cancel(ctx)
             /\ pc' = "done"
             /\ UNCHANGED <<reqHeader, pending>>
    /\ UNCHANGED <<cmd, cfg, rendered, transport, exchanges, bodies, resp>>
    /\ UNCHANGED clientVars

\* one iteration of the range loop over c.cfg.Headers (Go visits the keys in any order)
SendAddHeader ==
    /\ cmd = "send" /\ pc = "headers"
    /\ \E k \in pending :
        /\ reqHeader' = HeaderAdd(reqHeader, k, cfg.Headers[k])
        /\ pending' = pending \ {k}
    /\ UNCHANGED <<cmd, pc, ret, cfg, rendered, ctx, transport, exchanges, bodies, resp>>
    /\ UNCHANGED clientVars

\* req.Header.Set("User-Agent", c.meta.UserAgent), after the loop
SendSetUserAgent ==
    /\ cmd = "send" /\ pc = "headers" /\ pending = {}
    /\ reqHeader' = HeaderSet(reqHeader, Hdr_UserAgent, cfg.UserAgent)
    /\ pc' = "do"
    /\ UNCHANGED <<cmd, ret, cfg, rendered, pending, ctx, transport, exchanges, bodies, resp>>
    /\ UNCHANGED clientVars

\* hc.Do(req) starts: with the context already done it fails at once, otherwise the
\* transport performs the first round trip
SendDo ==
    /\ cmd = "send" /\ pc = "do"
    /\ IF ctx.done
       THEN /\ ret' = ctx.cause
            /\ ctx' = Cancel(ctx)
            /\ pc' = "done"
            /\ UNCHANGED <<transport, exchanges>>
       ELSE /\ \E t \in {"respond", "fail", "hang"} : transport' = t
            /\ exchanges' = exchanges + 1
            /\ pc' = "wait"
            /\ UNCHANGED <<ret, ctx>>
    /\ UNCHANGED <<cmd, cfg, rendered, pending, reqHeader, bodies, resp>>
    /\ UNCHANGED clientVars

\* the configured timeout elapses
TimerFire ==
    /\ cmd = "send"
    /\ ctx.timer = "armed" /\ ~ctx.done
    /\ ctx' = Expire(ctx)
    /\ UNCHANGED <<cmd, pc, ret, cfg, rendered, pending, reqHeader, transport, exchanges, bodies, resp>>
    /\ UNCHANGED clientVars

\* hc.Do returns the context's cause once the context is done; Send returns it
DoDeadline ==
    /\ cmd = "send" /\ pc = "wait" /\ ctx.done
    /\ ret' = ctx.cause
    /\ ctx' = Cancel(ctx)
    /\ pc' = "done"
    /\ UNCHANGED <<cmd, cfg, rendered, pending, reqHeader, transport, exchanges, bodies, resp>>
    /\ UNCHANGED clientVars

\* the round trip fails (connection refused, DNS failure, ...); Send returns the error
TransportFail ==
    /\ cmd = "send" /\ pc = "wait" /\ transport = "fail"
    /\ ret' = "transportError"
    /\ ctx' = Cancel(ctx)
    /\ pc' = "done"
    /\ UNCHANGED <<cmd, cfg, rendered, pending, reqHeader, transport, exchanges, bodies, resp>>
    /\ UNCHANGED clientVars

\* the round trip yields a response. http.Client.Do follows a redirect that carries a
\* Location (closing the body of the response it leaves behind) and fails when the
\* Location does not parse or the redirect policy stops it; any other response is
\* handed to Send, which closes its body and returns.
TransportRespond ==
    /\ cmd = "send" /\ pc = "wait" /\ transport = "respond"
    /\ \E r \in ResponsePool :
        IF ShouldRedirect(r.Status) /\ r.Location # "none"
        THEN /\ bodies' = [opened |-> bodies.opened + 1, closed |-> bodies.closed + 1]
             /\ resp' = resp
             /\ IF r.Location = "malformed" \/ StopRedirects(exchanges)
                THEN /\ ret' = "redirectError"
                     /\ ctx' = Cancel(ctx)
                     /\ pc' = "done"
                     /\ UNCHANGED <<transport, exchanges>>
                ELSE IF ctx.done
                THEN /\ ret' = ctx.cause
                     /\ ctx' = Cancel(ctx)
                     /\ pc' = "done"
                     /\ UNCHANGED <<transport, exchanges>>
                ELSE /\ \E t \in {"respond", "fail", "hang"} : transport' = t
                     /\ exchanges' = exchanges + 1
                     /\ UNCHANGED <<ret, ctx, pc>>
        ELSE /\ resp' = r
             /\ ret' = SendResult(r)
             /\ bodies' = [opened |-> bodies.opened + 1, closed |-> bodies.closed + 1]
             /\ ctx' = Cancel(ctx)
             /\ pc' = "done"
             /\ UNCHANGED <<transport, exchanges>>
    /\ UNCHANGED <<cmd, cfg, rendered, pending, reqHeader>>
    /\ UNCHANGED clientVars

----------------------------------------------------------------------------
(* Specification *)

Init ==
    /\ cmd = "none"
    /\ pc = "idle"
    /\ raw = FALSE
    /\ force = FALSE
    /\ conn = "none"
    /\ answer = "none"
    /\ rpcCalls = 0
    /\ reply = <<>>
    /\ out = NoOutput
    /\ ret = "none"
    /\ cfg = [Headers |-> EmptyHeader, UserAgent |-> ""]
    /\ rendered = "none"
    /\ pending = {}
    /\ reqHeader = EmptyHeader
    /\ ctx = NoContext
    /\ transport = "none"
    /\ exchanges = 0
    /\ bodies = [opened |-> 0, closed |-> 0]
    /\ resp = NoResponse

Next ==
    \/ ListStart
    \/ ListRpc
    \/ InspectStart
    \/ InspectRpc
    \/ RemoveStart
    \/ RemoveRpc
    \/ PruneStart
    \/ PrunePrompt
    \/ PruneRpc
    \/ SendStart
    \/ SendNewRequest
    \/ SendAddHeader
    \/ SendSetUserAgent
    \/ SendDo
    \/ TimerFire
    \/ DoDeadline
    \/ TransportFail
    \/ TransportRespond

Spec == Init /\ [][Next]_vars

\* The Go runtime fires an armed timer, and a Send that can return does return.
\* Nothing is assumed of the endpoint: it may never respond.
FairSpec ==
    Spec /\ WF_vars(TimerFire) /\ WF_vars(DoDeadline) /\ WF_vars(SendDo)

----------------------------------------------------------------------------
(* Properties *)

Returned == pc = "done"

\* C1: a prune without --force whose prompt is answered "no" issues no remote call
\* and returns nil; the ImagePrune call is reached only with --force or after "yes".
PruneDeclinedIsNoOp ==
    /\ (cmd = "prune" /\ ~force /\ answer = "no")
          => (Returned /\ rpcCalls = 0 /\ ret = "nil" /\ out = NoOutput)
    /\ (cmd = "prune" /\ (pc = "rpc" \/ rpcCalls > 0)) => (force \/ answer = "yes")

PruneDeclinedReached ==
    cmd = "prune" /\ ~force /\ answer = "no" /\ Returned /\ conn = "closed"

\* C2, as stated: without --force every prompt outcome other than "yes", a failing
\* prompt included, ends the run with no remote call and a nil result.
PruneAbortNeverAnError ==
    (cmd = "prune" /\ ~force /\ answer \in {"no", "error"})
        => (Returned /\ rpcCalls = 0 /\ ret = "nil")

\* C2, amended: without --force every prompt outcome other than "yes" ends the run
\* with no remote call; a "no" returns nil, a failing prompt returns the prompt's error.
PruneAbortReturnsPromptError ==
    (cmd = "prune" /\ ~force /\ answer \in {"no", "error"})
        => /\ Returned /\ rpcCalls = 0 /\ out = NoOutput
           /\ ret = (IF answer = "no" THEN "nil" ELSE "promptError")

PromptFailedReached ==
    cmd = "prune" /\ ~force /\ answer = "error" /\ Returned /\ ret = "promptError"

SameLetters(a, b) == MapToUpper(a) = MapToUpper(b)

RequestHandedOver == cmd = "send" /\ (pc = "wait" \/ exchanges >= 1)

\* C3: the request handed to the transport carries one User-Agent value, the configured
\* one, whatever the configured headers hold under any spelling of that key, and it
\* carries every other configured header.
UserAgentOverrides ==
    RequestHandedOver =>
        /\ \A x \in DOMAIN reqHeader :
              SameLetters(x, Hdr_UserAgent)
                  => (x = Hdr_UserAgent /\ reqHeader[x] = <<cfg.UserAgent>>)
        /\ Hdr_UserAgent \in DOMAIN reqHeader
        /\ \A k \in DOMAIN cfg.Headers :
              ~SameLetters(k, Hdr_UserAgent)
                  => \E x \in DOMAIN reqHeader :
                        SameLetters(x, k) /\ cfg.Headers[k] \in Range(reqHeader[x])

UserAgentClashReached ==
    /\ RequestHandedOver
    /\ {Hdr_UserAgent, Hdr_useragent, Hdr_xid} \subseteq DOMAIN cfg.Headers
    /\ cfg.Headers[Hdr_UserAgent] # cfg.UserAgent
    /\ cfg.Headers[Hdr_useragent] # cfg.Headers[Hdr_UserAgent]

\* C4: when message construction or JSON rendering fails, Send returns that error, builds
\* no context and no request, and the transport is never invoked.
RenderFailureSendsNothing ==
    (cmd = "send" /\ rendered \in {"newError", "renderError"})
        => /\ Returned /\ ret = rendered
           /\ exchanges = 0 /\ bodies.opened = 0
           /\ ctx = NoContext /\ reqHeader = EmptyHeader

RenderFailureReached ==
    cmd = "send" /\ rendered = "renderError" /\ Returned /\ ret = "renderError"

\* C5: a Send waiting on an endpoint that never responds returns, and what it returns is
\* the deadline-exceeded cause, which the deferred cancel does not replace.
HangingSendTimesOut ==
    (cmd = "send" /\ pc = "wait" /\ transport = "hang")
        ~> (Returned /\ ret = "DeadlineExceeded" /\ ctx.cause = "DeadlineExceeded"
              /\ ret \notin {"transportError", "Canceled"})

HangingSendReturned ==
    cmd = "send" /\ Returned /\ transport = "hang" /\ exchanges = 1
        /\ ret = "DeadlineExceeded" /\ ctx.timer = "fired"

Orderings(s) == {p \in SeqsUpTo(Range(s), Len(s)) : Len(p) = Len(s) /\ Injective(p)}

\* C6: the rows List outputs ascend by upper-cased name, and any order in which the
\* remote service returns the same set of images gives the same rows.
ListOrderIndependent ==
    (cmd = "list" /\ Returned /\ ret = "nil")
        => /\ \A i \in 1..(Len(out.rows) - 1) : ~ListLess(out.rows[i + 1], out.rows[i])
           /\ \A p \in Orderings(reply) : SortSlice(p, "list") = out.rows

Shown(m) == [Tag |-> m.Tag, Created |-> m.Created, Digest |-> m.Digest]

Occurrences(s, x) == Cardinality({i \in 1..Len(s) : Shown(s[i]) = x})

\* C7: Inspect outputs a permutation of the returned manifests, newest first (equal
\* creation times allowed), and the table's footer counts the returned manifests.
InspectSortedPermutation ==
    (cmd = "inspect" /\ Returned /\ ret = "nil")
        => /\ Len(out.rows) = Len(reply)
           /\ \A i \in 1..Len(reply) :
                 Occurrences(out.rows, Shown(reply[i])) = Occurrences(reply, Shown(reply[i]))
           /\ \A i \in 1..(Len(out.rows) - 1) : out.rows[i].Created >= out.rows[i + 1].Created
           /\ out.kind = "table" => out.footer = <<"Total", Len(reply)>>

InspectTieReached ==
    /\ cmd = "inspect" /\ Returned /\ ret = "nil" /\ out.kind = "table"
    /\ Len(reply) = MaxManifests
    /\ reply[1].Created < reply[2].Created
    /\ \E i, j \in 1..Len(reply) : i # j /\ reply[i].Created = reply[j].Created

\* C8: a prune that removed nothing prints the "nothing to be removed" message; a table
\* is rendered only when a manifest was removed, so never with the footer "0 (0B)".
PruneNothingRemovedMessage ==
    (cmd = "prune" /\ Returned /\ ret = "nil" /\ rpcCalls = 1)
        => /\ Len(Flatten(reply)) = 0
                 => out = Message("Nothing to be removed from the database")
           /\ out.kind = "table" => Len(Flatten(reply)) > 0
           /\ out.footer # <<"Total", 0, HumanSize(0)>>

RequestBuilt == cmd = "send" /\ Returned /\ rendered = "ok" /\ ret # "requestError"

\* C9, as stated: whatever the response status, Send returns nil exactly when the
\* transport delivered a response, and it performs at most one exchange.
SendOneExchangeAnyStatus ==
    RequestBuilt => /\ exchanges <= 1
                    /\ ret = "nil" <=> bodies.opened >= 1

\* C9, amended: Send itself never looks at the status. It returns nil exactly when
\* hc.Do hands it a response, of any status, and an error exactly when hc.Do fails.
\* hc.Do follows a redirect that carries a Location, so a Send performs one exchange
\* plus one per redirect followed, ten at most, and fails when a redirect cannot be
\* followed; no exchange follows a failure.
SendIgnoresStatus ==
    RequestBuilt =>
        /\ ret = "nil" <=> resp # NoResponse
        /\ ret # "nil" => ret \in {"transportError", "redirectError", "DeadlineExceeded"}
        /\ exchanges <= bodies.opened + 1
        /\ bodies.opened <= exchanges
        /\ exchanges > 1 => ~StopRedirects(exchanges - 1)
        /\ resp # NoResponse /\ (~ShouldRedirect(resp.Status) \/ resp.Location = "none")
              /\ bodies.opened = 1 => exchanges = 1
        /\ ret = "transportError" => bodies.opened = exchanges - 1

ErrorStatusAfterRedirectReached ==
    RequestBuilt /\ ret = "nil" /\ resp.Status = 500 /\ exchanges = 2

\* C10: when an operation has returned, what it acquired is released: the connection
\* of a List, Inspect, Remove or Prune is closed, the contexts of a Send are cancelled
\* and their timer is not armed, and every response body received is closed.
ReleasedOnReturn ==
    Returned =>
        /\ conn # "open"
        /\ (cmd \in {"list", "inspect", "remove", "prune"} /\ ret # "dialError")
              => conn = "closed"
        /\ ctx.made => (ctx.done /\ ctx.timer # "armed")
        /\ (cmd = "send" /\ rendered = "ok") => ctx.made
        /\ bodies.opened = bodies.closed

ReleasedAfterPromptError ==
    Returned /\ cmd = "prune" /\ answer = "error" /\ conn = "closed"

====
